---- MODULE Spec2Model ----
(***************************************************************************)
(* Communication hub of the Timone ground station: the single-reader       *)
(* receive loop, the reply-queue command round trip, the response-frame    *)
(* reader and the command writer, as documented in                         *)
(* tools/POLLING_CHANGES.md and scripts/COMM_HUB_USAGE.md.                 *)
(*                                                                         *)
(* The specifications of the module:                                       *)
(*   Spec / LiveSpec  - _rx_loop and _roundtrip over whole frames          *)
(*   ReaderSpec       - recv_frame over single bytes, corrupt terminator   *)
(*   BurstSpec        - recv_frame, two frames back to back                *)
(*   StallLiveSpec    - recv_frame, the device going silent inside a frame *)
(*   LinkSpec         - recv_frame feeding _rx_loop and _roundtrip         *)
(*   WriterSpec       - write_frame under _ser_lock, byte by byte          *)
(*   CodecSpec        - send_command and the payload decoders, one call    *)
(*   LifeLiveSpec     - the loops and stop()                               *)
(*   HealthSpec       - the periodic buffer health check of the reader     *)
(*                                                                         *)
(* and of the pages of the web interface (static/js):                      *)
(*   SettingsSpec     - the WebSocket bridge of settings.js                *)
(*   TelemetrySpec    - the event stream and the state notifications of    *)
(*                      telemetry.js                                       *)
(*   PanelSpec        - the capped store of the multi-panel logs           *)
(*   LogSpec          - the buffer of LogManager in logs.js                *)
(***************************************************************************)
EXTENDS Integers, Sequences, FiniteSets, TLC

\* ---------------------------------------------------------------- protocol
RESPONSE_BYTE == 125
HELLO_BYTE == 126
GOODBYE_BYTE == 127

PERIPHERAL_LORA_915 == 1
PERIPHERAL_BAROMETER == 3
PERIPHERAL_CURRENT == 4

CMD_GET_ALL == 0

\* uint8_t frame[256] of send_command
FRAME_BUFFER == 256
\* LENGTH is one byte
MAX_LENGTH == 255

\* sizes of the wire structures
WireHeartbeat_size == 6
WireStatus_size == 20
WireLoRa_size == 74
WireBarometer_size == 17
WireCurrent_size == 19

\* the buffer health check: its period in seconds, its backlog limit
CHECK_INTERVAL == 5
BACKLOG_THRESHOLD == 500

\* settings.js: the reconnect backoff, in milliseconds
resetBackoff == 1000
maxBackoffMs == 30000

\* the multi-panel logs: storage safety cap
MAX_ENTRIES == 5000

\* ------------------------------------------------------------------ bounds
MaxCalls == 2
MaxFrames == 2
MaxPayload == 1
MaxNoise == 1
MaxClock == 12
MaxSockets == 2
MaxMessages == 2
MaxPackets == 3
MaxAdds == 2
MaxLogs == 3

Calls == 1..MaxCalls
\* The callers of _roundtrip: the command thread and the polling loop.
Threads == {"cmd", "poll"}
Peripherals == {PERIPHERAL_BAROMETER, PERIPHERAL_CURRENT}
NoFrame == [peripheral_id |-> -1, payload |-> <<>>]

VARIABLES
    pending_replies,  \* the dict {peripheral_id: queue}, as its set of items
    reply_queue,      \* contents of the queue.Queue() each call created
    pc,               \* position of each _roundtrip call
    call_pid,         \* peripheral_id argument of each call
    result,           \* frame a call returned, NoFrame otherwise
    serial_in,        \* response frames the device sent, not yet read
    serial_out,       \* command frames written to the port
    published,        \* calls of _publish, in order
    read_by,          \* the threads that have taken a frame off the port
    superseders,      \* calls whose registration replaced another one
    nsent,            \* frames the device has sent
    \* recv_frame, byte by byte
    scenario,         \* the byte stream the device sends, in its parts
    wire,             \* bytes sent that have not reached the input buffer
    in_buffer,        \* the serial input buffer (ser.in_waiting bytes)
    narrived,         \* bytes that have reached the input buffer so far
    rx_state,         \* what recv_frame reads next
    rx_pid,           \* PERIPHERAL_ID byte of the frame being read
    rx_len,           \* LENGTH byte of the frame being read
    rx_payload,       \* payload bytes read so far
    received,         \* frames recv_frame returned, in order
    stalled,          \* a read inside a frame has timed out
    reset_at,         \* narrived at the first reset_input_buffer(), or -1
    \* write_frame under _ser_lock, byte by byte
    ser_lock,         \* the thread holding _ser_lock, or "free"
    w_pc,             \* position of each writing thread
    w_left,           \* bytes of a thread's frame not yet written
    tx,               \* bytes written to the port, in order
    nwrites,          \* frames the threads have asked to write
    \* the frame codec, one call at a time
    codec_call,       \* the call made: its operation and arguments
    codec_out,        \* what the call gave back
    \* start and stop of the hub
    stop_event,       \* self._stop is set
    ser_open,         \* the serial port is open
    hub_pc,           \* how far stop() has got
    rx_loop,          \* position of _rx_loop in its iteration
    poll_loop,        \* position of the polling loop in its iteration
    npolls,           \* commands the polling loop has sent
    \* the buffer health check of the reader loop
    now,              \* time.time(), in whole seconds
    last_buffer_check,\* time of the last health check
    in_waiting,       \* waiting = ser.in_waiting of the check, or -1
    \* settings.js, the WebSocket bridge
    ws,               \* the socket held in ws, 0 for null
    readyState,       \* readyState of every WebSocket object
    wsReady,
    wsQueue,
    reconnectTimer,   \* reconnectTimer is not null
    backoffMs,
    timers,           \* setTimeout callbacks that have not run yet
    hidden,           \* document.hidden
    onLine,           \* navigator.onLine
    transmitted,      \* messages that went out on an open socket, in order
    nmsgs,            \* messages handed to sendOverWS so far
    \* telemetry.js
    es,               \* the EventSource held in es, 0 for null
    es_readyState,    \* readyState of every EventSource object
    es_onerror,       \* the EventSource objects that have an onerror handler
    es_timers,        \* setTimeout callbacks that have not run yet
    current_state,    \* current.state
    stateCanon,       \* _notifyState.stateCanon
    notified,         \* the 'State changed' notifications, in order
    packets,          \* the telemetry messages handled so far, in order
    \* the multi-panel logs
    localStorage,     \* the entry list stored under each channel's key
    log_rows,         \* the rows of each channel's logContent, by their number
    nadds,            \* calls of addLogEntry so far
    \* logs.js, LogManager
    logContainer,     \* this.logContainer is set
    in_document,      \* the document has a .log-content element
    observer_queued,  \* the MutationObserver has a callback to run
    buffer,           \* this.buffer
    log_entries,      \* the rows appended to the container, in order
    nlogs             \* calls of LogManager.addLogEntry so far

hubVars == <<pending_replies, reply_queue, pc, call_pid, result, serial_in,
             serial_out, published, read_by, superseders, nsent>>

readerVars == <<scenario, wire, in_buffer, narrived, rx_state, rx_pid, rx_len,
                rx_payload, received, stalled, reset_at>>

writerVars == <<ser_lock, w_pc, w_left, tx, nwrites>>

codecVars == <<codec_call, codec_out>>

lifeVars == <<stop_event, ser_open, hub_pc, rx_loop, poll_loop, npolls>>

healthVars == <<now, last_buffer_check, in_waiting>>

settingsVars == <<ws, readyState, wsReady, wsQueue, reconnectTimer,
                  backoffMs, timers, hidden, onLine, transmitted, nmsgs>>

hubSideVars == <<hubVars, readerVars, writerVars, codecVars, lifeVars,
                 healthVars>>

telemetryVars == <<es, es_readyState, es_onerror, es_timers, current_state,
                   stateCanon, notified, packets>>

panelVars == <<localStorage, log_rows, nadds>>

logVars == <<logContainer, in_document, observer_queued, buffer, log_entries,
             nlogs>>

logPageVars == <<panelVars, logVars>>

browserVars == <<settingsVars, telemetryVars, logPageVars>>

vars == <<hubSideVars, browserVars>>

nonHubVars ==
    <<readerVars, writerVars, codecVars, lifeVars,
    healthVars, browserVars>>
nonReaderVars ==
    <<hubVars, writerVars, codecVars, lifeVars,
    healthVars, browserVars>>
nonWriterVars ==
    <<hubVars, readerVars, codecVars, lifeVars,
    healthVars, browserVars>>
nonCodecVars ==
    <<hubVars, readerVars, writerVars, lifeVars,
    healthVars, browserVars>>
nonLifeVars ==
    <<hubVars, readerVars, writerVars, codecVars,
    healthVars, browserVars>>
nonPortVars == <<hubVars, writerVars, codecVars, lifeVars, browserVars>>
nonSettingsVars == <<hubSideVars, telemetryVars, logPageVars>>
nonPanelVars == <<hubSideVars, settingsVars, telemetryVars, logVars>>
nonLogVars == <<hubSideVars, settingsVars, telemetryVars, panelVars>>

\* ------------------------------------------------- the pending_replies dict
DictHas(d, k) == \E e \in d : e[1] = k

DictGet(d, k) == (CHOOSE e \in d : e[1] = k)[2]

DictPop(d, k) == {e \in d : e[1] # k}

\* Variant: a registration that leaves the old queue in place.
DictAssignKeepOld(d, k, v) == d \cup {<<k, v>>}

DictAssign(d, k, v) == {e \in d : e[1] # k} \cup {<<k, v>>}

\* ------------------------------------------------------------ decode/publish
decode_wire_payload(frame) ==
    [type |-> frame.peripheral_id, data |-> frame.payload]

\* Variant: the newest telemetry overtakes what was published before.
PublishFirst(log, decoded) == <<decoded>> \o log

Publish(log, decoded) == Append(log, decoded)

HubInit ==
    /\ pending_replies = {}
    /\ reply_queue = [c \in Calls |-> <<>>]
    /\ pc = [c \in Calls |-> "idle"]
    /\ call_pid = [c \in Calls |-> -1]
    /\ result = [c \in Calls |-> NoFrame]
    /\ serial_in = <<>>
    /\ serial_out = <<>>
    /\ published = <<>>
    /\ read_by = {}
    /\ superseders = {}
    /\ nsent = 0

NoScenario == [bad |-> NoFrame, terminator |-> GOODBYE_BYTE, noise |-> <<>>,
               good |-> NoFrame]

\* recv_frame before any byte: waiting for RESPONSE_BYTE.
ReaderIdle ==
    /\ in_buffer = <<>>
    /\ narrived = 0
    /\ rx_state = "response"
    /\ rx_pid = -1
    /\ rx_len = -1
    /\ rx_payload = <<>>
    /\ received = <<>>
    /\ stalled = FALSE
    /\ reset_at = -1

\* No thread is writing and nothing has been written.
WriterIdle ==
    /\ ser_lock = "free"
    /\ w_pc = [t \in Threads |-> "idle"]
    /\ w_left = [t \in Threads |-> <<>>]
    /\ tx = <<>>
    /\ nwrites = 0

NoOutput == [status |-> "none"]

\* The codec has not been called.
CodecIdle ==
    /\ codec_call = [op |-> "none"]
    /\ codec_out = NoOutput

\* After start(): the port is open and both loops are at the top of an
\* iteration.
Started ==
    /\ stop_event = FALSE
    /\ ser_open = TRUE
    /\ hub_pc = "running"
    /\ rx_loop = "top"
    /\ poll_loop = "top"
    /\ npolls = 0

NotSampled == -1

Sockets == 1..MaxSockets

\* No page of the web interface is loaded.
SettingsIdle ==
    /\ ws = 0
    /\ readyState = [s \in Sockets |-> "NONE"]
    /\ wsReady = FALSE
    /\ wsQueue = <<>>
    /\ reconnectTimer = FALSE
    /\ backoffMs = resetBackoff
    /\ timers = 0
    /\ hidden = FALSE
    /\ onLine = TRUE
    /\ transmitted = <<>>
    /\ nmsgs = 0

\* The stream of DOMContentLoaded and the one the reconnect makes.
Streams == {1, 2}

\* A JavaScript value that is undefined or null.
Undefined == "<undefined>"

\* _canon(val) of a value that is null or undefined.
NullCanon == [num |-> FALSE, n |-> 0, s |-> ""]

TelemetryIdle ==
    /\ es = 0
    /\ es_readyState = [e \in Streams |-> "NONE"]
    /\ es_onerror = {}
    /\ es_timers = 0
    /\ current_state = Undefined
    /\ stateCanon = NullCanon
    /\ notified = <<>>
    /\ packets = <<>>

\* Two of the six channels of CHANNELS.
Channels == {"ground", "lora"}

PanelIdle ==
    /\ localStorage = [c \in Channels |-> <<>>]
    /\ log_rows = [c \in Channels |-> 0]
    /\ nadds = 0

\* The LogManager is constructed in a document without the Logs panel.
LogIdle ==
    /\ logContainer = FALSE
    /\ in_document = FALSE
    /\ observer_queued = FALSE
    /\ buffer = <<>>
    /\ log_entries = <<>>
    /\ nlogs = 0

LogPageIdle == PanelIdle /\ LogIdle

BrowserIdle == SettingsIdle /\ TelemetryIdle /\ LogPageIdle

\* No health check has run and none is under way.
HealthIdle ==
    /\ now = 0
    /\ last_buffer_check = 0
    /\ in_waiting = NotSampled

Init ==
    /\ HubInit
    /\ ReaderIdle /\ scenario = NoScenario /\ wire = <<>>
    /\ WriterIdle
    /\ CodecIdle
    /\ Started
    /\ HealthIdle
    /\ BrowserIdle

\* --------------------------------------------------------------- the device
\* The ESP32 sends a response frame, prompted or autonomous.
DeviceSend(p) ==
    /\ nsent < MaxFrames
    /\ nsent' = nsent + 1
    /\ serial_in' = Append(serial_in,
                           [peripheral_id |-> p, payload |-> <<nsent + 1>>])
    /\ UNCHANGED <<pending_replies, reply_queue, pc, call_pid, result,
                   serial_out, published, read_by, superseders>>
    /\ UNCHANGED nonHubVars

\* ----------------------------------------------------------------- _rx_loop
\* Variant: the frame goes to whichever call waits, whatever its peripheral.
RouteToAnyWaiter(frame) ==
    IF pending_replies # {}
    THEN LET e == CHOOSE x \in pending_replies :
                      \A y \in pending_replies : x[2] <= y[2]
         IN  [to |-> e[2], drop |-> e[1], publish |-> FALSE]
    ELSE [to |-> 0, drop |-> -1, publish |-> TRUE]

\* Variant: without the "continue", a routed reply is published as well.
RouteAndPublish(frame) ==
    IF DictHas(pending_replies, frame.peripheral_id)
    THEN [to |-> DictGet(pending_replies, frame.peripheral_id),
          drop |-> frame.peripheral_id, publish |-> TRUE]
    ELSE [to |-> 0, drop |-> -1, publish |-> TRUE]

\* Lines 185-195: under _reply_lock, a frame whose peripheral has a waiting
\* queue goes to that queue and the entry is popped; any other frame is
\* decoded and published.
Route(frame) ==
    IF DictHas(pending_replies, frame.peripheral_id)
    THEN [to |-> DictGet(pending_replies, frame.peripheral_id),
          drop |-> frame.peripheral_id, publish |-> FALSE]
    ELSE [to |-> 0, drop |-> -1, publish |-> TRUE]

\* One iteration of the loop, lines 174-195: read_frame_blocking hands over
\* the next frame (the only read of the port) and the frame is routed.
RxLoop ==
    /\ serial_in # <<>>
    /\ LET frame == Head(serial_in)
           r == Route(frame)
       IN  /\ pending_replies' = DictPop(pending_replies, r.drop)
           /\ reply_queue' = IF r.to # 0
                             THEN [reply_queue EXCEPT
                                      ![r.to] = Append(@, frame)]
                             ELSE reply_queue
           /\ published' = IF r.publish
                           THEN Publish(published, decode_wire_payload(frame))
                           ELSE published
    /\ serial_in' = Tail(serial_in)
    /\ read_by' = read_by \cup {"rx"}
    /\ UNCHANGED <<pc, call_pid, result, serial_out, superseders, nsent>>
    /\ UNCHANGED nonHubVars

\* --------------------------------------------------------------- _roundtrip
\* Calls that have been entered and have not returned; each thread runs one.
InFlight == {c \in Calls : pc[c] \in {"write", "wait", "cleanup"}}

\* Variant: the call goes on to write without having registered.
RegisterNothing(c, p) ==
    /\ pc[c] = "idle"
    /\ \A b \in Calls : b < c => pc[b] # "idle"
    /\ Cardinality(InFlight) < Cardinality(Threads)
    /\ call_pid' = [call_pid EXCEPT ![c] = p]
    /\ pc' = [pc EXCEPT ![c] = "write"]
    /\ UNCHANGED <<pending_replies, superseders, reply_queue, result,
                   serial_in, serial_out, published, read_by, nsent>>
    /\ UNCHANGED nonHubVars

\* Lines 199-202: a fresh queue is registered under the peripheral.
RoundtripRegister(c, p) ==
    /\ pc[c] = "idle"
    /\ \A b \in Calls : b < c => pc[b] # "idle"
    /\ Cardinality(InFlight) < Cardinality(Threads)
    /\ call_pid' = [call_pid EXCEPT ![c] = p]
    /\ pending_replies' = DictAssign(pending_replies, p, c)
    /\ superseders' = IF DictHas(pending_replies, p)
                      THEN superseders \cup {c} ELSE superseders
    /\ pc' = [pc EXCEPT ![c] = "write"]
    /\ UNCHANGED <<reply_queue, result, serial_in, serial_out,
                   published, read_by, nsent>>
    /\ UNCHANGED nonHubVars

\* Lines 204-208: the command frame is written under _ser_lock; without a
\* framer the call raises RuntimeError and leaves its registration behind.
RoundtripWrite(c, framer) ==
    /\ pc[c] = "write"
    /\ IF framer
       THEN /\ serial_out' = Append(serial_out,
                                    [peripheral_id |-> call_pid[c], by |-> c])
            /\ pc' = [pc EXCEPT ![c] = "wait"]
       ELSE /\ serial_out' = serial_out
            /\ pc' = [pc EXCEPT ![c] = "io_error"]
    /\ UNCHANGED <<pending_replies, reply_queue, call_pid, result, serial_in,
                   published, read_by,
                   superseders, nsent>>
    /\ UNCHANGED nonHubVars

\* Variant: the two-reader race, the command thread reading the port itself.
GetByReading(c) ==
    /\ pc[c] = "wait"
    /\ serial_in # <<>>
    /\ result' = [result EXCEPT ![c] = Head(serial_in)]
    /\ serial_in' = Tail(serial_in)
    /\ read_by' = read_by \cup {"cmd"}
    /\ pc' = [pc EXCEPT ![c] = "reply"]
    /\ UNCHANGED <<pending_replies, reply_queue, call_pid, serial_out,
                   published,
                   superseders, nsent>>
    /\ UNCHANGED nonHubVars

\* Lines 211-219: reply_queue.get returns the frame the reader routed.
RoundtripGet(c) ==
    /\ pc[c] = "wait"
    /\ reply_queue[c] # <<>>
    /\ result' = [result EXCEPT ![c] = Head(reply_queue[c])]
    /\ reply_queue' = [reply_queue EXCEPT ![c] = Tail(@)]
    /\ pc' = [pc EXCEPT ![c] = "reply"]
    /\ UNCHANGED <<pending_replies, call_pid, serial_in, serial_out,
                   published, read_by,
                   superseders, nsent>>
    /\ UNCHANGED nonHubVars

\* Variant: a get() without timeout never gives up.
GetBlocksForever(c) == FALSE

\* Lines 212, 220: get(timeout=REPLY_TIMEOUT_S) raises queue.Empty when the
\* queue stayed empty for the whole timeout.
GetTimesOut(c) == reply_queue[c] = <<>>

RoundtripEmpty(c) ==
    /\ pc[c] = "wait"
    /\ GetTimesOut(c)
    /\ pc' = [pc EXCEPT ![c] = "cleanup"]
    /\ UNCHANGED <<pending_replies, reply_queue, call_pid, result, serial_in,
                   serial_out, published, read_by, superseders, nsent>>
    /\ UNCHANGED nonHubVars

\* Variant: TimeoutError without the cleanup.
CleanupKeep(d, k) == d

\* Lines 221-224: cleanup on timeout, then TimeoutError.
Cleanup(d, k) == DictPop(d, k)

RoundtripCleanup(c) ==
    /\ pc[c] = "cleanup"
    /\ pending_replies' = Cleanup(pending_replies, call_pid[c])
    /\ pc' = [pc EXCEPT ![c] = "timeout"]
    /\ UNCHANGED <<reply_queue, call_pid, result, serial_in, serial_out,
                   published, read_by,
                   superseders, nsent>>
    /\ UNCHANGED nonHubVars

Next ==
    \/ \E p \in Peripherals : DeviceSend(p)
    \/ RxLoop
    \/ \E c \in Calls, p \in Peripherals : RoundtripRegister(c, p)
    \/ \E c \in Calls, framer \in BOOLEAN : RoundtripWrite(c, framer)
    \/ \E c \in Calls : RoundtripGet(c)
    \/ \E c \in Calls : RoundtripEmpty(c)
    \/ \E c \in Calls : RoundtripCleanup(c)

Spec == Init /\ [][Next]_vars

\* A step of an entered call: the thread running it is scheduled again and
\* its timed wait ends.
RoundtripStep(c) ==
    \/ \E framer \in BOOLEAN : RoundtripWrite(c, framer)
    \/ RoundtripGet(c)
    \/ RoundtripEmpty(c)
    \/ RoundtripCleanup(c)

LiveSpec == Spec /\ \A c \in Calls : WF_vars(RoundtripStep(c))

Returned(c) == pc[c] \in {"reply", "timeout", "io_error"}

\* The step is an iteration of _rx_loop taking a frame off the port.
FrameTaken == Len(serial_in') < Len(serial_in)

\* The step is call c writing its command frame to the port.
FrameWritten(c) == pc[c] = "write" /\ pc'[c] = "wait"

\* The last call that registered for peripheral p (calls are numbered in the
\* order they register).
LatestFor(c) ==
    \A d \in Calls : (d > c /\ pc[d] # "idle") => call_pid[d] # call_pid[c]

\* --------------------------------------------------------------- recv_frame
SeqsUpTo(S, n) == UNION {[1..k -> S] : k \in 0..n}

\* Payload bytes include the value of the start marker: a payload is opaque.
PayloadBytes == {0, RESPONSE_BYTE}
Payloads == SeqsUpTo(PayloadBytes, MaxPayload) \ {<<>>}
\* Drift between frames: zeros, debug output, an echoed command; no 0x7D.
NoiseBytes == {0, HELLO_BYTE, GOODBYE_BYTE}
BadTerminators == {0, RESPONSE_BYTE}

\* [RESPONSE=0x7D][PERIPHERAL_ID][LENGTH][data...][GOODBYE], with the byte
\* actually sent in the GOODBYE position.
EncodeResponse(frame, terminator) ==
    <<RESPONSE_BYTE, frame.peripheral_id, Len(frame.payload)>>
        \o frame.payload \o <<terminator>>

\* A frame with a corrupt terminator, noise, then a well-formed frame.
Scenarios ==
    [bad : [peripheral_id : Peripherals, payload : Payloads],
     terminator : BadTerminators,
     noise : SeqsUpTo(NoiseBytes, MaxNoise),
     good : [peripheral_id : Peripherals, payload : Payloads]]

Stream(sc) ==
    EncodeResponse(sc.bad, sc.terminator) \o sc.noise
        \o EncodeResponse(sc.good, GOODBYE_BYTE)

\* Offset in the stream of the first byte of the well-formed frame.
GoodStart(sc) == Len(EncodeResponse(sc.bad, sc.terminator)) + Len(sc.noise)

ReaderInit ==
    /\ HubInit
    /\ ReaderIdle
    /\ scenario \in Scenarios
    /\ wire = Stream(scenario)
    /\ WriterIdle
    /\ CodecIdle
    /\ Started
    /\ HealthIdle
    /\ BrowserIdle

\* The next byte on the line reaches the input buffer.
Arrive ==
    /\ wire # <<>>
    /\ in_buffer' = Append(in_buffer, Head(wire))
    /\ wire' = Tail(wire)
    /\ narrived' = narrived + 1
    /\ UNCHANGED <<scenario, rx_state, rx_pid, rx_len, rx_payload, received,
                   stalled, reset_at>>
    /\ UNCHANGED nonReaderVars

\* Wait for RESPONSE_BYTE; any other byte is skipped.
ReadResponse ==
    /\ rx_state = "response"
    /\ in_buffer # <<>>
    /\ in_buffer' = Tail(in_buffer)
    /\ rx_state' = IF Head(in_buffer) = RESPONSE_BYTE
                   THEN "pid" ELSE "response"
    /\ UNCHANGED <<scenario, wire, narrived, rx_pid, rx_len, rx_payload,
                   received, stalled, reset_at>>
    /\ UNCHANGED nonReaderVars

ReadPid ==
    /\ rx_state = "pid"
    /\ in_buffer # <<>>
    /\ rx_pid' = Head(in_buffer)
    /\ in_buffer' = Tail(in_buffer)
    /\ rx_state' = "length"
    /\ UNCHANGED <<scenario, wire, narrived, rx_len, rx_payload, received,
                   stalled, reset_at>>
    /\ UNCHANGED nonReaderVars

ReadLength ==
    /\ rx_state = "length"
    /\ in_buffer # <<>>
    /\ rx_len' = Head(in_buffer)
    /\ in_buffer' = Tail(in_buffer)
    /\ rx_state' = IF Head(in_buffer) = 0 THEN "goodbye" ELSE "payload"
    /\ UNCHANGED <<scenario, wire, narrived, rx_pid, rx_payload, received,
                   stalled, reset_at>>
    /\ UNCHANGED nonReaderVars

ReadPayload ==
    /\ rx_state = "payload"
    /\ in_buffer # <<>>
    /\ rx_payload' = Append(rx_payload, Head(in_buffer))
    /\ in_buffer' = Tail(in_buffer)
    /\ rx_state' = IF Len(rx_payload) + 1 = rx_len
                   THEN "goodbye" ELSE "payload"
    /\ UNCHANGED <<scenario, wire, narrived, rx_pid, rx_len, received,
                   stalled, reset_at>>
    /\ UNCHANGED nonReaderVars

\* Variant: the failure leaves the reader loop, which then reads no more.
LoopExits == "exited"

\* Lines 181-183: a frame that could not be read gives "frame is None" and
\* the loop continues with the next read, scanning for RESPONSE_BYTE.
AfterFrameError == "response"

\* Variant: a port opened without a read timeout.
ReadBlocksForever(waiting) == FALSE

\* Serial timeout, per ser.read() call: a read that finds no byte waiting
\* returns empty-handed when the timeout has passed.
SerialTimeout(waiting) == waiting = <<>>

\* A read of the header or the payload gets no byte within the read timeout
\* ("Partial payload: expected 74 bytes, got 65"): the frame is given up.
ReadTimeout ==
    /\ rx_state \in {"pid", "length", "payload"}
    /\ SerialTimeout(in_buffer)
    /\ stalled' = TRUE
    /\ rx_state' = AfterFrameError
    /\ rx_pid' = -1
    /\ rx_len' = -1
    /\ rx_payload' = <<>>
    /\ UNCHANGED <<scenario, wire, in_buffer, narrived, received, reset_at>>
    /\ UNCHANGED nonReaderVars

\* Variant: the GOODBYE byte is read and not compared.
GoodbyeAny(gb) == Len(gb) = 1

\* Lines 677-681: gb = ser.read(1);
\* if len(gb) != 1 or gb[0] != GOODBYE_BYTE: reset_input_buffer() and raise.
GoodbyeOk(gb) == Len(gb) = 1 /\ gb[1] = GOODBYE_BYTE

\* Variant: the error is raised and what is queued stays queued.
KeepInputBuffer(queued) == queued

\* Line 680: self.ser.reset_input_buffer() discards everything queued.
reset_input_buffer(queued) == <<>>

\* Variant: lines 630-633, the "extra bytes after GOODBYE" are read away.
ConsumeExtraBytes(queued) == <<>>

\* Lines 638-642: bytes already waiting are reported, not consumed.
bytes_already_waiting(queued) == queued

\* The GOODBYE read: gb is the next byte, or empty when the read timed out.
\* After a good frame the bytes already waiting are left alone (lines
\* 638-642).
ReadGoodbye ==
    /\ rx_state = "goodbye"
    /\ LET gb == IF in_buffer = <<>> THEN <<>> ELSE <<Head(in_buffer)>>
       IN  IF GoodbyeOk(gb)
           THEN /\ received' = Append(received,
                                      [peripheral_id |-> rx_pid,
                                       payload |-> rx_payload])
                /\ in_buffer' = bytes_already_waiting(Tail(in_buffer))
                /\ rx_state' = "response"
                /\ UNCHANGED <<stalled, reset_at>>
           ELSE /\ in_buffer' = reset_input_buffer(
                                   IF gb = <<>> THEN in_buffer
                                   ELSE Tail(in_buffer))
                /\ reset_at' = IF reset_at = -1 THEN narrived ELSE reset_at
                /\ stalled' = (stalled \/ gb = <<>>)
                /\ rx_state' = AfterFrameError
                /\ UNCHANGED received
    /\ rx_pid' = -1
    /\ rx_len' = -1
    /\ rx_payload' = <<>>
    /\ UNCHANGED <<scenario, wire, narrived>>
    /\ UNCHANGED nonReaderVars

ReaderNext ==
    \/ Arrive
    \/ ReadResponse
    \/ ReadPid
    \/ ReadLength
    \/ ReadPayload
    \/ ReadTimeout
    \/ ReadGoodbye

ReaderSpec == ReaderInit /\ [][ReaderNext]_vars

\* A burst (GET_ALL on ALL): two well-formed frames, the second on the heels
\* of the first; "bad" is here the first frame, sent with a good terminator.
BurstScenarios ==
    [bad : [peripheral_id : Peripherals, payload : Payloads],
     terminator : {GOODBYE_BYTE},
     noise : SeqsUpTo(NoiseBytes, MaxNoise),
     good : [peripheral_id : Peripherals, payload : Payloads]]

BurstInit ==
    /\ HubInit
    /\ ReaderIdle
    /\ scenario \in BurstScenarios
    /\ wire = Stream(scenario)
    /\ WriterIdle
    /\ CodecIdle
    /\ Started
    /\ HealthIdle
    /\ BrowserIdle

BurstSpec == BurstInit /\ [][ReaderNext]_vars

\* The device stalls inside a frame: only the first "cut" bytes of the first
\* frame are sent; the well-formed frame follows later.
StallScenarios ==
    {sc \in [bad : [peripheral_id : Peripherals, payload : Payloads],
             terminator : {GOODBYE_BYTE},
             noise : {<<>>},
             good : [peripheral_id : Peripherals, payload : Payloads],
             cut : 1..(4 + MaxPayload)] :
        sc.cut < Len(EncodeResponse(sc.bad, sc.terminator))}

StallInit ==
    /\ HubInit
    /\ ReaderIdle
    /\ scenario \in StallScenarios
    /\ wire = SubSeq(EncodeResponse(scenario.bad, scenario.terminator),
                     1, scenario.cut)
    /\ WriterIdle
    /\ CodecIdle
    /\ Started
    /\ HealthIdle
    /\ BrowserIdle

\* The read timeout (0.2 s, 0.5 s) is far longer than the gap between the
\* bytes of a frame at 115200 baud: a read times out only when the device
\* has gone silent.
DeviceSilent == wire = <<>>

StallTimeout == DeviceSilent /\ ReadTimeout

StallGoodbye == (in_buffer # <<>> \/ DeviceSilent) /\ ReadGoodbye

\* The device sends the well-formed frame once the stalled read has timed
\* out and the reader scans again.
DeviceResume ==
    /\ stalled
    /\ rx_state = "response"
    /\ in_buffer = <<>>
    /\ wire = <<>>
    /\ narrived = scenario.cut
    /\ wire' = EncodeResponse(scenario.good, GOODBYE_BYTE)
    /\ UNCHANGED <<scenario, in_buffer, narrived, rx_state, rx_pid, rx_len,
                   rx_payload, received, stalled, reset_at>>
    /\ UNCHANGED nonReaderVars

StallNext ==
    \/ Arrive
    \/ ReadResponse
    \/ ReadPid
    \/ ReadLength
    \/ ReadPayload
    \/ StallTimeout
    \/ StallGoodbye
    \/ DeviceResume

StallSpec == StallInit /\ [][StallNext]_vars

\* The reader thread keeps running, bytes sent arrive, the device resumes.
StallLiveSpec == StallSpec /\ WF_vars(StallNext)

\* The step is the read of the byte in the terminator position.
TerminatorRead == rx_state = "goodbye" /\ rx_state' # "goodbye"

\* Every byte sent has been read or discarded and the reader is between
\* frames.
Drained == wire = <<>> /\ in_buffer = <<>> /\ rx_state = "response"

\* ------------------------------------------ recv_frame feeding the _rx_loop
\* A corrupt barometer frame, at most one stray byte, then a well-formed
\* frame of either peripheral, the two frames told apart by their payloads.
LinkScenarios ==
    {sc \in Scenarios :
        /\ sc.bad.peripheral_id = PERIPHERAL_BAROMETER
        /\ sc.bad.payload = <<RESPONSE_BYTE>>
        /\ sc.terminator = 0
        /\ sc.noise \in {<<>>, <<0>>}
        /\ sc.good.payload = <<0>>}

LinkInit ==
    /\ HubInit
    /\ ReaderIdle
    /\ scenario \in LinkScenarios
    /\ wire = Stream(scenario)
    /\ WriterIdle
    /\ CodecIdle
    /\ Started
    /\ HealthIdle
    /\ BrowserIdle

\* Line 181: read_frame_blocking returns the next frame recv_frame
\* completed; _rx_loop routes it in its next step.
ReadFrameBlocking ==
    /\ nsent < Len(received)
    /\ serial_in' = Append(serial_in, received[nsent + 1])
    /\ nsent' = nsent + 1
    /\ UNCHANGED <<pending_replies, reply_queue, pc, call_pid, result,
                   serial_out, published, read_by, superseders>>
    /\ UNCHANGED nonHubVars

LinkNext ==
    \/ ReaderNext
    \/ ReadFrameBlocking
    \/ RxLoop
    \/ \E c \in Calls, p \in Peripherals : RoundtripRegister(c, p)
    \/ \E c \in Calls, framer \in BOOLEAN : RoundtripWrite(c, framer)
    \/ \E c \in Calls : RoundtripGet(c)
    \/ \E c \in Calls : RoundtripEmpty(c)
    \/ \E c \in Calls : RoundtripCleanup(c)

LinkSpec == LinkInit /\ [][LinkNext]_vars

\* -------------------------------------------------------------- write_frame
\* [HELLO=0x7E][PERIPHERAL_ID][LENGTH][COMMAND][optional data...][GOODBYE]:
\* frame[2] = len + 1 is stored in a uint8_t.
CommandFrame(peripheral_id, cmd, data) ==
    <<HELLO_BYTE, peripheral_id, (Len(data) + 1) % 256, cmd>>
        \o data \o <<GOODBYE_BYTE>>

\* Optional data of a command: opaque bytes, the end marker's value included.
CommandData == SeqsUpTo({GOODBYE_BYTE}, MaxPayload)

\* The frames the callers of this model ask to write.
WriterFrames ==
    {CommandFrame(p, CMD_GET_ALL, d) : p \in Peripherals, d \in CommandData}

\* A thread reaches "with self._ser_lock" holding the frame it will write;
\* without a framer it will raise RuntimeError inside the lock, writing
\* nothing.
WriterEnter(t, frame, framer) ==
    /\ w_pc[t] = "idle"
    /\ nwrites < MaxCalls
    /\ nwrites' = nwrites + 1
    /\ w_left' = [w_left EXCEPT ![t] = IF framer THEN frame ELSE <<>>]
    /\ w_pc' = [w_pc EXCEPT ![t] = "lock"]
    /\ UNCHANGED <<ser_lock, tx>>
    /\ UNCHANGED nonWriterVars

\* Variant: a write that does not wait for the lock.
AcquireAnyway(lock) == TRUE

\* Line 205: the with-statement blocks until the lock is free.
CanAcquire(lock) == lock = "free"

WriterAcquire(t) ==
    /\ w_pc[t] = "lock"
    /\ CanAcquire(ser_lock)
    /\ ser_lock' = t
    /\ w_pc' = [w_pc EXCEPT ![t] = "writing"]
    /\ UNCHANGED <<w_left, tx, nwrites>>
    /\ UNCHANGED nonWriterVars

\* Line 208: write_frame hands the frame to the port; the finest grain at
\* which the port takes it is one byte.
WriteByte(t) ==
    /\ w_pc[t] = "writing"
    /\ w_left[t] # <<>>
    /\ tx' = Append(tx, Head(w_left[t]))
    /\ w_left' = [w_left EXCEPT ![t] = Tail(@)]
    /\ UNCHANGED <<ser_lock, w_pc, nwrites>>
    /\ UNCHANGED nonWriterVars

\* Leaving the with-block releases the lock.
WriterRelease(t) ==
    /\ w_pc[t] = "writing"
    /\ w_left[t] = <<>>
    /\ ser_lock' = "free"
    /\ w_pc' = [w_pc EXCEPT ![t] = "idle"]
    /\ UNCHANGED <<w_left, tx, nwrites>>
    /\ UNCHANGED nonWriterVars

WriterNext ==
    \/ \E t \in Threads, frame \in WriterFrames, framer \in BOOLEAN :
           WriterEnter(t, frame, framer)
    \/ \E t \in Threads : WriterAcquire(t)
    \/ \E t \in Threads : WriteByte(t)
    \/ \E t \in Threads : WriterRelease(t)

WriterSpec == Init /\ [][WriterNext]_vars

\* s is a concatenation of whole command frames.
RECURSIVE WholeFrames(_)
WholeFrames(s) ==
    \/ s = <<>>
    \/ \E k \in 1..Len(s) :
           /\ SubSeq(s, 1, k) \in WriterFrames
           /\ WholeFrames(SubSeq(s, k + 1, Len(s)))

\* ------------------------------------------------------------ send_command
\* n bytes of optional data, all of one value.
Filled(n, b) == [i \in 1..n |-> b]

\* Calls of send_command: data of every length up to and past the frame
\* buffer.
EncodeCalls ==
    [op : {"encode"},
     peripheral_id : {PERIPHERAL_LORA_915} \cup Peripherals,
     cmd : {CMD_GET_ALL},
     data : {Filled(n, b) : n \in 0..(FRAME_BUFFER + 1),
                            b \in {0, GOODBYE_BYTE}}]

\* Lines 112-127: the frame is built in frame[256] and 5 + len bytes are
\* written; len is not checked. Within the buffer the frame is sent as
\* built. Past it (len > 251) memcpy and frame[4 + len] write outside the
\* array: the build may send the bytes it built or abort.
send_command(call) ==
    LET built == [status |-> "sent",
                  bytes |-> CommandFrame(call.peripheral_id, call.cmd,
                                         call.data)]
    IN  IF 5 + Len(call.data) <= FRAME_BUFFER
        THEN {built}
        ELSE {built, [status |-> "crashed", bytes |-> <<>>]}

SendCommand ==
    /\ codec_call.op = "encode"
    /\ codec_out = NoOutput
    /\ codec_out' \in send_command(codec_call)
    /\ UNCHANGED codec_call
    /\ UNCHANGED nonCodecVars

\* ---------------------------------------------------------- payload decode
Structures == {"WireHeartbeat_t", "WireStatus_t", "WireLoRa_t",
               "WireBarometer_t", "WireCurrent_t"}

StructSize(kind) ==
    CASE kind = "WireHeartbeat_t" -> WireHeartbeat_size
      [] kind = "WireStatus_t" -> WireStatus_size
      [] kind = "WireLoRa_t" -> WireLoRa_size
      [] kind = "WireBarometer_t" -> WireBarometer_size
      [] kind = "WireCurrent_t" -> WireCurrent_size

\* Payloads of every length up to one past the largest structure.
DecodeCalls ==
    [op : {"decode"},
     kind : Structures,
     payload : {Filled(n, 0) : n \in 0..(WireLoRa_size + 1)}]

\* Variant: a decoder that takes the structure off the front of a longer
\* payload.
SizeAtLeast(expected, actual) == actual >= expected

\* "Payload size doesn't match expected structure".
SizeOk(expected, actual) == actual = expected

\* The structure is unpacked from its bytes, or the decode fails with
\* "Invalid ... size: expected 20, got 15".
decode_payload(call) ==
    LET expected == StructSize(call.kind)
        actual == Len(call.payload)
    IN  IF SizeOk(expected, actual)
        THEN [status |-> "ok", kind |-> call.kind,
              fields |-> SubSeq(call.payload, 1, expected)]
        ELSE [status |-> "DecodeError", expected |-> expected,
              actual |-> actual]

DecodePayload ==
    /\ codec_call.op = "decode"
    /\ codec_out = NoOutput
    /\ codec_out' = decode_payload(codec_call)
    /\ UNCHANGED codec_call
    /\ UNCHANGED nonCodecVars

CodecInit ==
    /\ HubInit
    /\ ReaderIdle /\ scenario = NoScenario /\ wire = <<>>
    /\ WriterIdle
    /\ codec_call \in EncodeCalls \cup DecodeCalls
    /\ codec_out = NoOutput
    /\ Started
    /\ HealthIdle
    /\ BrowserIdle

CodecNext == SendCommand \/ DecodePayload

CodecSpec == CodecInit /\ [][CodecNext]_vars

\* ------------------------------------------------------------ start and stop
\* stop(): the loops are told to end, ...
StopSignal ==
    /\ hub_pc = "running"
    /\ stop_event' = TRUE
    /\ hub_pc' = "signalled"
    /\ UNCHANGED <<ser_open, rx_loop, poll_loop, npolls>>
    /\ UNCHANGED nonLifeVars

\* ... then the port is closed.
StopClose ==
    /\ hub_pc = "signalled"
    /\ ser_open' = FALSE
    /\ hub_pc' = "closed"
    /\ UNCHANGED <<stop_event, rx_loop, poll_loop, npolls>>
    /\ UNCHANGED nonLifeVars

\* Variant: a loop that does not look at the stop event.
RunForever(stop) == TRUE

\* Line 174: while not self._stop.is_set()
KeepRunning(stop) == ~stop

RxLoopTop ==
    /\ rx_loop = "top"
    /\ rx_loop' = IF KeepRunning(stop_event) THEN "connect" ELSE "exited"
    /\ UNCHANGED <<stop_event, ser_open, hub_pc, poll_loop, npolls>>
    /\ UNCHANGED nonLifeVars

\* Lines 176-178: under _ser_lock, a port that is not open is connected.
RxLoopConnect ==
    /\ rx_loop = "connect"
    /\ ser_open' = TRUE
    /\ rx_loop' = "read"
    /\ UNCHANGED <<stop_event, hub_pc, poll_loop, npolls>>
    /\ UNCHANGED nonLifeVars

\* Lines 181-195: read_frame_blocking(timeout_s=0.2) returns a frame, which
\* is handled, or None; either way the iteration ends.
RxLoopRead ==
    /\ rx_loop = "read"
    /\ rx_loop' = "top"
    /\ UNCHANGED <<stop_event, ser_open, hub_pc, poll_loop, npolls>>
    /\ UNCHANGED nonLifeVars

\* The polling loop: while running, send a command, then sleep the interval.
PollLoopTop ==
    /\ poll_loop = "top"
    /\ IF KeepRunning(stop_event)
       THEN /\ npolls < MaxCalls
            /\ npolls' = npolls + 1
            /\ poll_loop' = "call"
       ELSE /\ npolls' = npolls
            /\ poll_loop' = "exited"
    /\ UNCHANGED <<stop_event, ser_open, hub_pc, rx_loop>>
    /\ UNCHANGED nonLifeVars

\* sendCommand returns: with the reply, TimeoutError or an I/O error.
PollLoopCall ==
    /\ poll_loop = "call"
    /\ poll_loop' = "sleep"
    /\ UNCHANGED <<stop_event, ser_open, hub_pc, rx_loop, npolls>>
    /\ UNCHANGED nonLifeVars

PollLoopSleep ==
    /\ poll_loop = "sleep"
    /\ poll_loop' = "top"
    /\ UNCHANGED <<stop_event, ser_open, hub_pc, rx_loop, npolls>>
    /\ UNCHANGED nonLifeVars

RxLoopStep == RxLoopTop \/ RxLoopConnect \/ RxLoopRead

PollLoopStep == PollLoopTop \/ PollLoopCall \/ PollLoopSleep

LifeNext ==
    \/ StopSignal
    \/ StopClose
    \/ RxLoopStep
    \/ PollLoopStep

LifeSpec == Init /\ [][LifeNext]_vars

\* Both loop threads keep being scheduled.
LifeLiveSpec == LifeSpec /\ WF_vars(RxLoopStep) /\ WF_vars(PollLoopStep)

\* ------------------------------------------------- the buffer health check
\* Bytes waiting when the reader starts: none, or one short of the limit.
Backlogs == {0, BACKLOG_THRESHOLD - 1}

\* Drift on the line: n zero bytes.
Filler(n) == [i \in 1..n |-> 0]

\* The reader is waiting for RESPONSE_BYTE, with a backlog in the buffer.
HealthInit ==
    /\ HubInit
    /\ scenario = NoScenario
    /\ \E backlog \in Backlogs :
        /\ in_buffer = Filler(backlog)
        /\ narrived = backlog
    /\ rx_state = "response"
    /\ rx_pid = -1
    /\ rx_len = -1
    /\ rx_payload = <<>>
    /\ received = <<>>
    /\ stalled = FALSE
    /\ reset_at = -1
    /\ wire = Filler(MaxNoise + 1)
    /\ WriterIdle
    /\ CodecIdle
    /\ Started
    /\ now = 0
    /\ last_buffer_check = 0
    /\ in_waiting = NotSampled
    /\ BrowserIdle

\* A second of wall time passes.
Tick ==
    /\ now < MaxClock
    /\ now' = now + 1
    /\ UNCHANGED <<last_buffer_check, in_waiting>>
    /\ UNCHANGED <<readerVars, nonPortVars>>

\* The line delivers a byte, at any point of the reader's iteration.
HealthArrive ==
    /\ wire # <<>>
    /\ in_buffer' = Append(in_buffer, Head(wire))
    /\ wire' = Tail(wire)
    /\ narrived' = narrived + 1
    /\ UNCHANGED <<scenario, rx_state, rx_pid, rx_len, rx_payload, received,
                   stalled, reset_at>>
    /\ UNCHANGED <<healthVars, nonPortVars>>

\* The reader, between two checks, takes a byte off the buffer.
HealthRead ==
    /\ in_waiting = NotSampled
    /\ ReadResponse

\* if time.time() - last_buffer_check > 5.0: waiting = ser.in_waiting
HealthSample ==
    /\ in_waiting = NotSampled
    /\ now - last_buffer_check > CHECK_INTERVAL
    /\ in_waiting' = Len(in_buffer)
    /\ UNCHANGED <<now, last_buffer_check>>
    /\ UNCHANGED <<readerVars, nonPortVars>>

\* Variant: a backlog of exactly the limit counts as suspicious too.
AtLeastThreshold(count) == count >= BACKLOG_THRESHOLD

\* if waiting > 500
BacklogSuspicious(count) == count > BACKLOG_THRESHOLD

\* if waiting > 500: reset_input_buffer(); then last_buffer_check = now
HealthCheck ==
    /\ in_waiting # NotSampled
    /\ IF BacklogSuspicious(in_waiting)
       THEN /\ in_buffer' = reset_input_buffer(in_buffer)
            /\ reset_at' = IF reset_at = -1 THEN narrived ELSE reset_at
       ELSE UNCHANGED <<in_buffer, reset_at>>
    /\ last_buffer_check' = now
    /\ in_waiting' = NotSampled
    /\ UNCHANGED now
    /\ UNCHANGED <<scenario, wire, narrived, rx_state, rx_pid, rx_len,
                   rx_payload, received, stalled>>
    /\ UNCHANGED nonPortVars

HealthNext ==
    \/ Tick
    \/ HealthArrive
    \/ HealthRead
    \/ HealthSample
    \/ HealthCheck

HealthSpec == HealthInit /\ [][HealthNext]_vars

\* ------------------------------------------- settings.js: WebSocket bridge
Live == {"CONNECTING", "OPEN"}

\* A WebSocket object nothing can hear from any more may be forgotten; the
\* lowest such slot holds the next object made.
Unused(s) == readyState[s] \in {"NONE", "CLOSED"}

FreeSocket(s) == Unused(s) /\ \A t \in 1..(s - 1) : ~Unused(t)

\* Variant: the delay keeps doubling.
DoubleUncapped(ms) == ms * 2

\* backoffMs = Math.min(backoffMs * 2, maxBackoffMs)
DoubleBackoff(ms) == IF ms * 2 < maxBackoffMs THEN ms * 2 ELSE maxBackoffMs

\* if (document.hidden || !navigator.onLine)
Paused(isHidden, isOnLine) == isHidden \/ ~isOnLine

\* scheduleReconnect(reason), with document.hidden and navigator.onLine as
\* they are when it is called. The jitter only changes the delay.
scheduleReconnect(isHidden, isOnLine) ==
    IF ~Paused(isHidden, isOnLine) /\ ~reconnectTimer
    THEN /\ reconnectTimer' = TRUE
         /\ timers' = timers + 1
    ELSE UNCHANGED <<reconnectTimer, timers>>

\* ws.close() on the object s, given the readyState of every object.
close(states, s) ==
    IF s # 0 /\ states[s] \in Live
    THEN [states EXCEPT ![s] = "CLOSING"]
    ELSE states

\* ws.send(text) on an object in the given readyState.
send(state) ==
    CASE state = "CONNECTING" -> "InvalidStateError"
      [] state = "OPEN" -> "sent"
      [] OTHER -> "discarded"

\* After DOMContentLoaded: openWS() has run once, whatever the page's
\* visibility; the constructor returned a socket or threw.
SettingsInit ==
    /\ HubInit
    /\ ReaderIdle /\ scenario = NoScenario /\ wire = <<>>
    /\ WriterIdle
    /\ CodecIdle
    /\ Started
    /\ HealthIdle
    /\ hidden \in BOOLEAN
    /\ onLine \in BOOLEAN
    /\ \/ /\ ws = 1
          /\ readyState = [s \in Sockets |-> IF s = 1 THEN "CONNECTING"
                                             ELSE "NONE"]
          /\ reconnectTimer = FALSE
       \/ /\ ws = 0
          /\ readyState = [s \in Sockets |-> "NONE"]
          /\ reconnectTimer = ~Paused(hidden, onLine)
    /\ timers = IF reconnectTimer THEN 1 ELSE 0
    /\ wsReady = FALSE
    /\ wsQueue = <<>>
    /\ backoffMs = resetBackoff
    /\ transmitted = <<>>
    /\ nmsgs = 0
    /\ TelemetryIdle
    /\ LogPageIdle

\* The reconnect timer runs out: the callback of setTimeout, with openWS().
TimerFires ==
    /\ timers > 0
    /\ backoffMs' = DoubleBackoff(backoffMs)
    /\ \/ \E s \in Sockets :
            /\ FreeSocket(s)
            /\ ws' = s
            /\ readyState' = [readyState EXCEPT ![s] = "CONNECTING"]
            /\ reconnectTimer' = FALSE
            /\ timers' = timers - 1
            /\ UNCHANGED wsReady
       \/ \* new WebSocket() throws: scheduleReconnect('constructor_error')
          /\ reconnectTimer' = ~Paused(hidden, onLine)
          /\ timers' = IF reconnectTimer' THEN timers ELSE timers - 1
          /\ UNCHANGED <<ws, readyState, wsReady>>
    /\ UNCHANGED <<wsQueue, hidden, onLine, transmitted, nmsgs>>
    /\ UNCHANGED nonSettingsVars

\* ws.onopen of the object s; ws in the handler is the variable, not s.
SocketOpens(s) ==
    /\ readyState[s] = "CONNECTING"
    /\ readyState' = [readyState EXCEPT ![s] = "OPEN"]
    /\ wsReady' = TRUE
    /\ backoffMs' = resetBackoff
    /\ LET outcome == send(readyState'[ws])
       IN  CASE wsQueue = <<>> \/ outcome = "InvalidStateError" ->
                    UNCHANGED <<wsQueue, transmitted>>
             [] wsQueue # <<>> /\ outcome = "sent" ->
                    /\ transmitted' = transmitted \o wsQueue
                    /\ wsQueue' = <<>>
             [] OTHER ->
                    /\ wsQueue' = <<>>
                    /\ UNCHANGED transmitted
    /\ UNCHANGED <<ws, reconnectTimer, timers, hidden, onLine, nmsgs>>
    /\ UNCHANGED nonSettingsVars

\* ws.onclose: wsReady = false; scheduleReconnect('close')
onclose ==
    /\ wsReady' = FALSE
    /\ scheduleReconnect(hidden, onLine)

\* The connection of s is lost or cannot be made: the error event, whose
\* handler closes the socket in ws, then the close event.
SocketFails(s) ==
    /\ readyState[s] \in Live \cup {"CLOSING"}
    /\ readyState' = close([readyState EXCEPT ![s] = "CLOSED"], ws)
    /\ onclose
    /\ UNCHANGED <<ws, wsQueue, backoffMs, hidden, onLine, transmitted,
                   nmsgs>>
    /\ UNCHANGED nonSettingsVars

\* The server ends the connection of s, or its closing is done: the close
\* event alone.
SocketCloses(s) ==
    /\ readyState[s] \in {"OPEN", "CLOSING"}
    /\ readyState' = [readyState EXCEPT ![s] = "CLOSED"]
    /\ onclose
    /\ UNCHANGED <<ws, wsQueue, backoffMs, hidden, onLine, transmitted,
                   nmsgs>>
    /\ UNCHANGED nonSettingsVars

\* sendOverWS(obj), called by handleFormSubmit; the texts are numbered.
sendOverWS ==
    /\ nmsgs < MaxMessages
    /\ nmsgs' = nmsgs + 1
    /\ IF ws # 0 /\ wsReady /\ readyState[ws] = "OPEN"
       THEN /\ transmitted' = Append(transmitted, nmsgs + 1)
            /\ UNCHANGED <<wsQueue, reconnectTimer, timers>>
       ELSE /\ wsQueue' = Append(wsQueue, nmsgs + 1)
            /\ UNCHANGED transmitted
            /\ IF ws = 0 \/ readyState[ws] = "CLOSED"
               THEN scheduleReconnect(hidden, onLine)
               ELSE UNCHANGED <<reconnectTimer, timers>>
    /\ UNCHANGED <<ws, readyState, wsReady, backoffMs, hidden, onLine>>
    /\ UNCHANGED nonSettingsVars

\* The page is hidden or shown: the visibilitychange listener.
VisibilityChange ==
    /\ hidden' = ~hidden
    /\ IF ~hidden' /\ onLine /\ (ws = 0 \/ readyState[ws] # "OPEN")
       THEN scheduleReconnect(hidden', onLine)
       ELSE UNCHANGED <<reconnectTimer, timers>>
    /\ UNCHANGED <<ws, readyState, wsReady, wsQueue, backoffMs, onLine,
                   transmitted, nmsgs>>
    /\ UNCHANGED nonSettingsVars

\* window 'online': scheduleReconnect('online')
Online ==
    /\ ~onLine
    /\ onLine' = TRUE
    /\ scheduleReconnect(hidden, onLine')
    /\ UNCHANGED <<ws, readyState, wsReady, wsQueue, backoffMs, hidden,
                   transmitted, nmsgs>>
    /\ UNCHANGED nonSettingsVars

\* window 'offline': only the status text changes.
Offline ==
    /\ onLine
    /\ onLine' = FALSE
    /\ UNCHANGED <<ws, readyState, wsReady, wsQueue, reconnectTimer,
                   backoffMs, timers, hidden, transmitted, nmsgs>>
    /\ UNCHANGED nonSettingsVars

SettingsNext ==
    \/ TimerFires
    \/ \E s \in Sockets : SocketOpens(s)
    \/ \E s \in Sockets : SocketFails(s)
    \/ \E s \in Sockets : SocketCloses(s)
    \/ sendOverWS
    \/ VisibilityChange
    \/ Online
    \/ Offline

SettingsSpec == SettingsInit /\ [][SettingsNext]_vars

\* --------------------------------------------- telemetry.js: event stream
\* Everything of the settings page but document.hidden.
settingsRest == <<ws, readyState, wsReady, wsQueue, reconnectTimer, backoffMs,
                  timers, onLine, transmitted, nmsgs>>

notifyVars == <<current_state, stateCanon, notified, packets>>

\* After DOMContentLoaded: es = new EventSource(...) with its three handlers.
TelemetryInit ==
    /\ HubInit
    /\ ReaderIdle /\ scenario = NoScenario /\ wire = <<>>
    /\ WriterIdle
    /\ CodecIdle
    /\ Started
    /\ HealthIdle
    /\ SettingsIdle
    /\ es = 1
    /\ es_readyState = [e \in Streams |-> IF e = 1 THEN "CONNECTING"
                                          ELSE "NONE"]
    /\ es_onerror = {1}
    /\ es_timers = 0
    /\ current_state = Undefined
    /\ stateCanon = NullCanon
    /\ notified = <<>>
    /\ packets = <<>>
    /\ LogPageIdle

\* es.close() on the object e, given the readyState of every object.
es_close(states, e) ==
    IF e # 0 THEN [states EXCEPT ![e] = "CLOSED"] ELSE states

\* es.onopen: a log line.
StreamOpens(e) ==
    /\ es_readyState[e] = "CONNECTING"
    /\ es_readyState' = [es_readyState EXCEPT ![e] = "OPEN"]
    /\ UNCHANGED <<es, es_onerror, es_timers, notifyVars>>
    /\ UNCHANGED <<hubSideVars, settingsVars, logPageVars>>

\* The connection of e fails: the browser retries by itself, or gives up when
\* the failure is fatal, and fires the error event. es.onerror, where it is
\* set, closes the stream in es and arms the 1.5 s timer.
StreamError(e, fatal) ==
    /\ es_readyState[e] \in {"CONNECTING", "OPEN"}
    /\ LET after == [es_readyState EXCEPT
                         ![e] = IF fatal THEN "CLOSED" ELSE "CONNECTING"]
       IN  IF e \in es_onerror
           THEN /\ es_readyState' = es_close(after, es)
                /\ es_timers' = es_timers + 1
           ELSE /\ es_readyState' = after
                /\ UNCHANGED es_timers
    /\ UNCHANGED <<es, es_onerror, notifyVars>>
    /\ UNCHANGED <<hubSideVars, settingsVars, logPageVars>>

\* The setTimeout callback of es.onerror: a new EventSource with onopen and
\* onmessage.
StreamTimer ==
    /\ es_timers > 0
    /\ es_timers' = es_timers - 1
    /\ \E e \in Streams :
        /\ es_readyState[e] = "NONE"
        /\ \A d \in Streams : d < e => es_readyState[d] # "NONE"
        /\ es' = e
        /\ es_readyState' = [es_readyState EXCEPT ![e] = "CONNECTING"]
    /\ UNCHANGED <<es_onerror, notifyVars>>
    /\ UNCHANGED <<hubSideVars, settingsVars, logPageVars>>

\* The visibilitychange listener: close the stream when hidden; refresh the
\* elements and the charts when visible.
TelemetryVisibility ==
    /\ hidden' = ~hidden
    /\ es_readyState' = IF hidden' THEN es_close(es_readyState, es)
                        ELSE es_readyState
    /\ UNCHANGED <<es, es_onerror, es_timers, notifyVars>>
    /\ UNCHANGED <<hubSideVars, settingsRest, logPageVars>>

\* ------------------------------------- telemetry.js: state notifications
\* raw.state of a message: absent, or a value as String(raw.state) gives it.
Absent == "<absent>"

\* Number(val) of the texts that are numeric.
Numeric == ("" :> 0) @@ ("0" :> 0) @@ ("1" :> 1) @@ ("1.0" :> 1) @@ ("2" :> 2)

\* String(val).trim().toLowerCase() of the others.
Lowered == ("Armed" :> "armed") @@ ("armed " :> "armed")

RawStates == DOMAIN Numeric \cup DOMAIN Lowered

\* A JSON object with or without a state, or a log line, which has none.
TelemetryMessages ==
    [kind : {"object"}, state : RawStates \cup {Absent}]
        \cup {[kind |-> "line", state |-> Absent]}

_canon(val) ==
    IF val = Undefined THEN NullCanon
    ELSE IF val \in DOMAIN Numeric
         THEN [num |-> TRUE, n |-> Numeric[val], s |-> ""]
         ELSE [num |-> FALSE, n |-> 0, s |-> Lowered[val]]

\* The state key of normalizeRow(raw): '' for an object without a state, no
\* key at all for a log line.
normalizeRow(raw) ==
    IF raw.kind = "object"
    THEN IF raw.state # Absent THEN raw.state ELSE ""
    ELSE Undefined

mergeVal(oldVal, newVal) == IF newVal = Undefined THEN oldVal ELSE newVal

\* Variant: a zero state is a state like any other.
NeverZero(currCanon) == FALSE

\* const isZero = (currCanon === 0 || currCanon === '0')
isZero(currCanon) == currCanon.num /\ currCanon.n = 0

\* es.onmessage of an open stream: onTelemetry(raw), of which the merge into
\* current and part (A) of updateFields(current).
StreamMessage(e, raw) ==
    /\ es_readyState[e] = "OPEN"
    /\ Len(packets) < MaxPackets
    /\ packets' = Append(packets, raw)
    /\ current_state' = mergeVal(current_state, normalizeRow(raw))
    /\ LET currCanon == _canon(current_state')
       IN  IF current_state' # Undefined /\ ~isZero(currCanon)
           THEN /\ notified' =
                     IF stateCanon # NullCanon /\ currCanon # stateCanon
                     THEN Append(notified, <<stateCanon, current_state'>>)
                     ELSE notified
                /\ stateCanon' = currCanon
           ELSE UNCHANGED <<notified, stateCanon>>
    /\ UNCHANGED <<es, es_readyState, es_onerror, es_timers>>
    /\ UNCHANGED <<hubSideVars, settingsVars, logPageVars>>

TelemetryNext ==
    \/ \E e \in Streams : StreamOpens(e)
    \/ \E e \in Streams, fatal \in BOOLEAN : StreamError(e, fatal)
    \/ StreamTimer
    \/ TelemetryVisibility
    \/ \E e \in Streams, raw \in TelemetryMessages : StreamMessage(e, raw)

TelemetrySpec == TelemetryInit /\ [][TelemetryNext]_vars

\* ------------------------------------------------- multi-panel logs: store
\* The level a caller passes; '' is stored and read back as 'info'.
Levels == {"info", ""}

\* An entry list of n entries, older than anything added from now on.
Stored(n) == [i \in 1..n |-> [ts |-> i - n, level |-> "info", message |-> i - n]]

\* What the channels hold when the page loads: nothing, or a list at the cap
\* or one short of it.
StoredLengths == {0, MAX_ENTRIES - 1, MAX_ENTRIES}

\* After DOMContentLoaded: every panel has restored its rows from the store.
PanelInit ==
    /\ HubInit
    /\ ReaderIdle /\ scenario = NoScenario /\ wire = <<>>
    /\ WriterIdle
    /\ CodecIdle
    /\ Started
    /\ HealthIdle
    /\ SettingsIdle
    /\ TelemetryIdle
    /\ LogIdle
    /\ \E lengths \in [Channels -> StoredLengths] :
        /\ localStorage = [c \in Channels |-> Stored(lengths[c])]
        /\ log_rows = lengths
    /\ nadds = 0

\* _readAll(): the stored list, each entry with its defaults filled in.
_readAll(raw) ==
    [i \in 1..Len(raw) |->
        [ts |-> raw[i].ts,
         level |-> IF raw[i].level = "" THEN "info" ELSE raw[i].level,
         message |-> raw[i].message]]

\* Variant: the cap keeps the first MAX_ENTRIES entries.
spliceTail(all, deleteCount) == SubSeq(all, 1, Len(all) - deleteCount)

\* all.splice(0, deleteCount)
splice(all, deleteCount) == SubSeq(all, deleteCount + 1, Len(all))

\* _persist(entry)
_persist(raw, entry) ==
    LET all == Append(_readAll(raw), entry)
    IN  IF Len(all) > MAX_ENTRIES
        THEN splice(all, Len(all) - MAX_ENTRIES)
        ELSE all

\* addLogEntry(message, level) of the panel of channel c; the entries are
\* numbered in the order of the calls.
PanelAdd(c, level) ==
    /\ nadds < MaxAdds
    /\ nadds' = nadds + 1
    /\ log_rows' = [log_rows EXCEPT ![c] = @ + 1]
    /\ localStorage' =
           [localStorage EXCEPT
               ![c] = _persist(@, [ts |-> nadds + 1, level |-> level,
                                   message |-> nadds + 1])]
    /\ UNCHANGED nonPanelVars

\* clear() of the panel of channel c
PanelClear(c) ==
    /\ log_rows' = [log_rows EXCEPT ![c] = 0]
    /\ localStorage' = [localStorage EXCEPT ![c] = <<>>]
    /\ UNCHANGED nadds
    /\ UNCHANGED nonPanelVars

PanelNext ==
    \/ \E c \in Channels, level \in Levels : PanelAdd(c, level)
    \/ \E c \in Channels : PanelClear(c)

PanelSpec == PanelInit /\ [][PanelNext]_vars

\* ------------------------------------------------------ logs.js: LogManager
LogLevels == {"info", "warn"}

\* After the constructor: the Logs panel is in the document, and then the
\* container is bound at once, or it is not there yet.
LogInit ==
    /\ HubInit
    /\ ReaderIdle /\ scenario = NoScenario /\ wire = <<>>
    /\ WriterIdle
    /\ CodecIdle
    /\ Started
    /\ HealthIdle
    /\ SettingsIdle
    /\ TelemetryIdle
    /\ PanelIdle
    /\ in_document \in BOOLEAN
    /\ logContainer = in_document
    /\ observer_queued = FALSE
    /\ buffer = <<>>
    /\ log_entries = <<>>
    /\ nlogs = 0

\* The Logs panel is injected into the document.
PanelInjected ==
    /\ ~in_document
    /\ in_document' = TRUE
    /\ observer_queued' = TRUE
    /\ UNCHANGED <<logContainer, buffer, log_entries, nlogs>>
    /\ UNCHANGED nonLogVars

\* Anything else changes in the document.
DomMutation ==
    /\ observer_queued' = TRUE
    /\ UNCHANGED <<logContainer, in_document, buffer, log_entries, nlogs>>
    /\ UNCHANGED nonLogVars

\* _append(message, level) of each buffered line in turn, at the time stamp.
appendAll(rows, lines, stamp) ==
    rows \o [i \in 1..Len(lines) |->
                [timestamp |-> stamp, level |-> lines[i].level,
                 message |-> lines[i].msg]]

\* Variant: the flush leaves the lines in the buffer.
KeepBuffer(lines) == lines

\* this.buffer = []
EmptyBuffer(lines) == <<>>

\* The MutationObserver callback: refreshRefs().
refreshRefs ==
    /\ observer_queued
    /\ logContainer' = (logContainer \/ in_document)
    /\ IF ~logContainer /\ logContainer' /\ buffer # <<>>
       THEN /\ log_entries' = appendAll(log_entries, buffer, nlogs)
            /\ buffer' = EmptyBuffer(buffer)
            /\ observer_queued' = TRUE
       ELSE /\ UNCHANGED <<log_entries, buffer>>
            /\ observer_queued' = FALSE
    /\ UNCHANGED <<in_document, nlogs>>
    /\ UNCHANGED nonLogVars

\* addLogEntry(message, level); the messages are numbered in the order of
\* the calls, and the number also stands for the time of the call.
addLogEntry(level) ==
    /\ nlogs < MaxLogs
    /\ nlogs' = nlogs + 1
    /\ IF ~logContainer
       THEN /\ buffer' = Append(buffer, [msg |-> nlogs + 1, level |-> level])
            /\ UNCHANGED <<log_entries, observer_queued>>
       ELSE /\ log_entries' =
                   appendAll(log_entries,
                             <<[msg |-> nlogs + 1, level |-> level]>>,
                             nlogs + 1)
            /\ observer_queued' = TRUE
            /\ UNCHANGED buffer
    /\ UNCHANGED <<logContainer, in_document>>
    /\ UNCHANGED nonLogVars

LogNext ==
    \/ PanelInjected
    \/ DomMutation
    \/ refreshRefs
    \/ \E level \in LogLevels : addLogEntry(level)

LogSpec == LogInit /\ [][LogNext]_vars

\* ------------------------------------------------------------------ claims

C2_ReplyOrTelemetry ==
    [][FrameTaken =>
          LET frame == Head(serial_in)
              p == frame.peripheral_id
          IN  IF DictHas(pending_replies, p)
              THEN LET q == DictGet(pending_replies, p)
                   IN  /\ reply_queue' =
                              [reply_queue EXCEPT ![q] = Append(@, frame)]
                       /\ ~DictHas(pending_replies', p)
                       /\ published' = published
              ELSE /\ published' =
                          Append(published, decode_wire_payload(frame))
                   /\ reply_queue' = reply_queue
                   /\ pending_replies' = pending_replies]_vars

C2_Witness ==
    /\ published # <<>>
    /\ \E c \in Calls : reply_queue[c] # <<>>

\* C3: a call returns only a reply whose peripheral is the one it asked.
C3_OwnReplyOnly ==
    \A c \in Calls :
        pc[c] = "reply" => result[c].peripheral_id = call_pid[c]

\* Two calls to different peripherals, both answered, the replies having
\* come in the order opposite to the calls.
C3_Witness ==
    /\ pc[1] = "reply" /\ pc[2] = "reply"
    /\ call_pid[1] # call_pid[2]
    /\ result[1].payload = <<2>>
    /\ result[2].payload = <<1>>

\* C4: a call that superseded another one and is still waiting receives the
\* next frame of its peripheral (the superseded call is left to time out).
C4_SupersederGetsNextReply ==
    [][\A c \in superseders :
          (/\ pc[c] \in {"write", "wait"}
           /\ reply_queue[c] = <<>>
           /\ LatestFor(c)
           /\ FrameTaken
           /\ Head(serial_in).peripheral_id = call_pid[c])
          => reply_queue'[c] = <<Head(serial_in)>>]_vars

\* C5: the table holds at most one registration per peripheral.
C5_OnePendingPerPeripheral ==
    \A p \in Peripherals :
        Cardinality({e \in pending_replies : e[1] = p}) <= 1

C5_Witness ==
    \E c \in superseders : pending_replies = {<<call_pid[c], c>>}

\* C6: a frame routed to a queue is taken by the call that owns the queue:
\* no frame lies in the queue of a call that has stopped waiting, and no
\* queue holds two.
C6_NoDeliveryLost ==
    \A c \in Calls :
        /\ Len(reply_queue[c]) <= 1
        /\ reply_queue[c] # <<>> => pc[c] \in {"write", "wait"}

\* C7: a call that ended in TimeoutError has left no registration of its own.
C7_TimeoutDeregisters ==
    \A c \in Calls :
        pc[c] = "timeout" => <<call_pid[c], c>> \notin pending_replies

C7_Witness ==
    \E c \in Calls : pc[c] = "timeout" /\ reply_queue[c] = <<>>

\* C8: every sendCommand call that was entered eventually returns, with the
\* reply, with TimeoutError or with an I/O error, whatever frames arrive. A
\* call that was entered is never idle again and a call that has returned
\* stays returned, so that "entered leads to returned" is the same as: again
\* and again, the call is idle or has returned.
C8_EveryCallReturns ==
    /\ [][\A c \in Calls : (pc[c] # "idle" => pc'[c] # "idle")
                            /\ (Returned(c) => Returned(c)')]_vars
    /\ \A c \in Calls : []<>(pc[c] = "idle" \/ Returned(c))

C8_Witness ==
    /\ \E c \in Calls : pc[c] = "timeout"
    /\ \E c \in Calls : pc[c] = "reply"

\* C9 as stated: whenever the stream has been read through without a stalled
\* read, the well-formed frame behind the corrupt one and the noise is the
\* one frame the reader returned.
C9_NextFrameAlwaysParsed ==
    (Drained /\ ~stalled) => received = <<scenario.good>>

\* C9, amended: read without a stalled read, the corrupt frame is never
\* returned; at its terminator the input buffer is reset; and when no byte
\* of the following well-formed frame had arrived at that reset, the noise
\* is skipped, nothing but that frame is returned, and it is returned
\* intact once the stream has been read through.
C9_ResyncAfterReset ==
    ~stalled =>
        IF reset_at = -1
        THEN received = <<>>
        ELSE reset_at <= GoodStart(scenario) =>
                /\ received \in {<<>>, <<scenario.good>>}
                /\ Drained => received = <<scenario.good>>

C9_Witness ==
    /\ Drained
    /\ ~stalled
    /\ reset_at # -1
    /\ reset_at <= GoodStart(scenario)
    /\ scenario.noise # <<>>
    /\ RESPONSE_BYTE \in {scenario.bad.payload[i] :
                             i \in DOMAIN scenario.bad.payload}
    /\ received = <<scenario.good>>

\* C10: telemetry is published in wire order: of two published frames the
\* one the device sent first (the smaller sequence tag) comes first.
C10_PublishedInWireOrder ==
    \A i, j \in DOMAIN published :
        i < j => published[i].data[1] < published[j].data[1]

C10_Witness == Len(published) >= 2

\* C11: the outbound byte stream is always a concatenation of whole command
\* frames, followed at most by the written part of the one frame a thread is
\* writing now: no byte of another frame stands inside a frame.
C11_WritesNotInterleaved ==
    \E rest \in {<<>>} \cup {w_left[t] :
                                 t \in {u \in Threads : w_pc[u] = "writing"}} :
        WholeFrames(tx \o rest)

\* One thread is in the middle of its frame while the other thread waits for
\* the lock with a frame of its own.
C11_Witness ==
    \E t, u \in Threads :
        /\ w_pc[t] = "writing" /\ w_left[t] # <<>>
        /\ w_pc[u] = "lock" /\ w_left[u] # <<>>
        /\ tx # <<>>
        /\ ~WholeFrames(tx)

C13_EncodeOrError ==
    (codec_call.op = "encode" /\ codec_out # NoOutput) =>
        IF 1 + Len(codec_call.data) <= MAX_LENGTH
        THEN codec_out =
                 [status |-> "sent",
                  bytes |-> <<126, codec_call.peripheral_id,
                              1 + Len(codec_call.data), codec_call.cmd>>
                            \o codec_call.data \o <<127>>]
        ELSE codec_out.status = "EncodingError"

\* C14: a payload is decoded only when its length is the structure's exact
\* size, the record then covering all of it; any other length fails with
\* DecodeError carrying the expected and the actual length.
C14_DecodeExactLength ==
    (codec_call.op = "decode" /\ codec_out # NoOutput) =>
        LET size == CASE codec_call.kind = "WireHeartbeat_t" -> 6
                      [] codec_call.kind = "WireStatus_t" -> 20
                      [] codec_call.kind = "WireLoRa_t" -> 74
                      [] codec_call.kind = "WireBarometer_t" -> 17
                      [] codec_call.kind = "WireCurrent_t" -> 19
        IN  IF Len(codec_call.payload) = size
            THEN /\ codec_out.status = "ok"
                 /\ codec_out.fields = codec_call.payload
            ELSE codec_out = [status |-> "DecodeError", expected |-> size,
                              actual |-> Len(codec_call.payload)]

\* "Invalid status size: expected 20, got 15".
C14_Witness ==
    /\ codec_call.op = "decode"
    /\ codec_call.kind = "WireStatus_t"
    /\ codec_out = [status |-> "DecodeError", expected |-> 20, actual |-> 15]

\* C15: the port is closed only by a step taken when the loops have already
\* been signalled, and once stop() has been called both loops eventually
\* terminate.
C15_StopSignalsThenCloses ==
    /\ [][(ser_open /\ ~ser_open') => stop_event]_vars
    /\ (hub_pc # "running") ~> (rx_loop = "exited" /\ poll_loop = "exited")

\* stop() has closed the port and both loops have ended, the polling loop
\* after sending commands.
C15_Witness ==
    /\ hub_pc = "closed"
    /\ rx_loop = "exited"
    /\ poll_loop = "exited"
    /\ npolls > 0

\* C16 as stated: when a call writes its command frame, a PendingReply for
\* the target peripheral is in the registration table.
C16_RegisteredAtWrite ==
    [][\A c \in Calls :
          FrameWritten(c) => DictHas(pending_replies, call_pid[c])]_vars

\* C16, amended: a call has registered before it writes. At the write its
\* registration is in the table unless a frame of the peripheral has
\* already been routed to it, a later call to the peripheral has replaced
\* it, or another call to the peripheral has timed out and cleaned up; and a
\* frame of the peripheral taken while the registration is in the table
\* goes to the caller's queue and is not published.
C16_RegisterBeforeWrite ==
    [][\A c \in Calls :
          /\ FrameWritten(c) =>
                \/ <<call_pid[c], c>> \in pending_replies
                \/ reply_queue[c] # <<>>
                \/ \E d \in Calls \ {c} :
                       /\ call_pid[d] = call_pid[c]
                       /\ (d > c /\ pc[d] # "idle") \/ pc[d] = "timeout"
          /\ (/\ FrameTaken
              /\ <<Head(serial_in).peripheral_id, c>> \in pending_replies)
             => /\ reply_queue'[c] = Append(reply_queue[c], Head(serial_in))
                /\ published' = published]_vars

\* A call has written its frame with its registration in the table and the
\* device has not sent anything yet: the reply will come after the write.
C16_Witness ==
    \E c \in Calls :
        /\ pc[c] = "wait"
        /\ <<call_pid[c], c>> \in pending_replies
        /\ \E i \in DOMAIN serial_out : serial_out[i].by = c
        /\ nsent = 0

\* C17: the cleanup of a call that times out removes no registration but
\* its own.
C17_CleanupRemovesOwnOnly ==
    [][\A c \in Calls :
          (pc[c] = "cleanup" /\ pc'[c] = "timeout") =>
              \A e \in pending_replies : e[2] # c => e \in pending_replies']_vars

\* C18: when the byte read in the terminator position is not 0x7F or is
\* missing, that step leaves the input buffer empty, returns no frame and
\* puts the reader back to scanning for the start marker.
C18_BadTerminatorResets ==
    [][(/\ TerminatorRead
        /\ in_buffer = <<>> \/ Head(in_buffer) # 127)
       => /\ in_buffer' = <<>>
          /\ received' = received
          /\ published' = published
          /\ rx_state' = "response"]_vars

\* The reset has just discarded bytes that were queued behind the corrupt
\* terminator.
C18_Witness ==
    /\ ~stalled
    /\ reset_at = narrived
    /\ reset_at > Len(EncodeResponse(scenario.bad, scenario.terminator))
    /\ in_buffer = <<>>
    /\ rx_state = "response"
    /\ received = <<>>

\* C19: the step that reads a valid terminator returns the frame and takes
\* nothing else: every byte queued behind the terminator is in the input
\* buffer, unchanged and in order, when the next iteration starts.
C19_NothingReadPastTerminator ==
    [][(/\ TerminatorRead
        /\ in_buffer # <<>> /\ Head(in_buffer) = 127)
       => /\ in_buffer' = Tail(in_buffer)
          /\ Len(received') = Len(received) + 1
          /\ rx_state' = "response"]_vars

\* The first frame has been returned and the whole second frame, which was
\* queued behind its terminator, is waiting for the next iteration.
C19_Witness ==
    /\ received = <<scenario.bad>>
    /\ rx_state = "response"
    /\ scenario.noise = <<>>
    /\ in_buffer = EncodeResponse(scenario.good, GOODBYE_BYTE)

\* C20: when the device stalls inside a frame the reader loop never exits,
\* a read left waiting inside the frame is always released back to scanning
\* for the start marker, nothing is returned for the broken frame, and the
\* well-formed frame sent later is returned.
C20_StallReleasesReader ==
    /\ [](rx_state \in {"response", "pid", "length", "payload", "goodbye"})
    /\ [](received \in {<<>>, <<scenario.good>>})
    /\ (rx_state # "response" /\ in_buffer = <<>> /\ wire = <<>>)
           ~> (rx_state = "response")
    /\ <>[](received = <<scenario.good>>)

\* The device went silent inside the payload, the read timed out, and the
\* frame sent afterwards has been returned.
C20_Witness ==
    /\ stalled
    /\ scenario.cut = 3
    /\ reset_at = -1
    /\ Drained
    /\ received = <<scenario.good>>

\* C21: at each periodic health check of the reader, a backlog above the
\* threshold (500 bytes) has the input buffer reset to empty, and a backlog
\* at or below the threshold leaves the input buffer unchanged.
C21_HealthCheckResetsBacklog ==
    [][HealthCheck =>
          IF in_waiting > BACKLOG_THRESHOLD
          THEN in_buffer' = <<>>
          ELSE in_buffer' = in_buffer]_vars

\* A check has found more than the threshold waiting and emptied the buffer.
C21_Witness ==
    /\ reset_at > BACKLOG_THRESHOLD
    /\ last_buffer_check > 0
    /\ in_waiting = NotSampled
    /\ Len(in_buffer) < BACKLOG_THRESHOLD

\* A socket has just opened.
SocketOpened ==
    \E s \in Sockets : readyState[s] = "CONNECTING" /\ readyState'[s] = "OPEN"

\* A WebSocket object has just been made.
SocketCreated ==
    \E s \in Sockets : readyState[s] # "CONNECTING"
                        /\ readyState'[s] = "CONNECTING"

LiveSockets == {s \in Sockets : readyState[s] \in Live}

SocketIsOpen == ws # 0 /\ readyState[ws] = "OPEN"

NoDuplicates(q) == \A i, j \in 1..Len(q) : q[i] = q[j] => i = j

\* C22: every message passed to sendOverWS while the socket is not open is
\* queued; at the next successful open all queued messages are sent in the
\* order they were queued and the queue is emptied; no message is sent more
\* than once.
C22_QueueFlushedOnOpen ==
    /\ [][nmsgs' # nmsgs /\ ~SocketIsOpen
            => wsQueue' = Append(wsQueue, nmsgs')]_vars
    /\ [][SocketOpened
            => transmitted' = transmitted \o wsQueue /\ wsQueue' = <<>>]_vars
    /\ [](NoDuplicates(transmitted))

\* C23: at most one live WebSocket (connecting or open) exists at any time,
\* and wsReady is true exactly when the socket held in ws is open.
C23_OneLiveSocket ==
    /\ Cardinality(LiveSockets) <= 1
    /\ wsReady <=> SocketIsOpen

\* C24: 1000 ms <= backoffMs <= 30000 ms always; backoffMs starts at 1000,
\* doubles at each reconnect attempt up to the 30000 cap and is reset to 1000
\* on every successful open; at most one reconnect timer is pending.
C24_BackoffBounded ==
    /\ backoffMs = resetBackoff
    /\ [](resetBackoff <= backoffMs /\ backoffMs <= maxBackoffMs)
    /\ [](timers <= 1 /\ (reconnectTimer <=> timers = 1))
    /\ [][TimerFires =>
            backoffMs' = IF backoffMs * 2 > maxBackoffMs
                         THEN maxBackoffMs ELSE backoffMs * 2]_vars
    /\ [][SocketOpened => backoffMs' = resetBackoff]_vars

\* The delay has climbed to the cap and the next attempt is scheduled.
C24_Witness ==
    /\ backoffMs = maxBackoffMs
    /\ timers = 1

\* C25: no connection attempt is made while the document is hidden or the
\* browser is offline.
C25_NoAttemptWhilePaused ==
    [][SocketCreated => ~Paused(hidden, onLine)]_vars

\* The page has a stream that is connecting or open.
HasStream == \E e \in Streams : es_readyState[e] \in {"CONNECTING", "OPEN"}

\* C26: the telemetry EventSource is closed when the document becomes hidden
\* and is reconnected when the document becomes visible again.
C26_StreamBackWhenVisible ==
    /\ [][~hidden /\ hidden' => ~HasStream']_vars
    /\ [][hidden /\ ~hidden' => HasStream' \/ es_timers' > 0]_vars

\* An error event has just been fired on a stream.
StreamFailed == \E e \in Streams, fatal \in BOOLEAN : StreamError(e, fatal)

\* C27: after every error on the telemetry EventSource, also on a stream an
\* earlier reconnect made, the stream is closed and a new EventSource is
\* scheduled (1.5 s later).
C27_EveryErrorReconnects ==
    [][StreamFailed => ~HasStream' /\ es_timers' = es_timers + 1]_vars

\* The message carries a state and the state is not zero.
NonZeroState(raw) ==
    /\ raw.state # Absent
    /\ ~(_canon(raw.state).num /\ _canon(raw.state).n = 0)

RECURSIVE LastNonZero(_)
\* The canonical state of the last message with a non-zero state, NullCanon
\* if there is none.
LastNonZero(seen) ==
    IF seen = <<>> THEN NullCanon
    ELSE LET raw == seen[Len(seen)]
         IN  IF NonZeroState(raw)
             THEN _canon(raw.state)
             ELSE LastNonZero(SubSeq(seen, 1, Len(seen) - 1))

\* C28: a 'State changed' notification is emitted exactly when a packet's
\* state is non-zero and differs from the state of the most recent earlier
\* non-zero packet; packets with state 0 or no state emit nothing and leave
\* the remembered baseline alone; the first non-zero state emits nothing.
C28_NotifiedOnChangeOnly ==
    /\ [](stateCanon = LastNonZero(packets))
    /\ [][packets' # packets =>
            LET raw == packets'[Len(packets')]
                earlier == LastNonZero(packets)
                changed == /\ NonZeroState(raw)
                           /\ earlier # NullCanon
                           /\ _canon(raw.state) # earlier
            IN  IF changed
                THEN notified' = Append(notified, <<earlier, raw.state>>)
                ELSE notified' = notified]_vars

\* A change was notified although a zero state came in between.
C28_Witness ==
    /\ Len(packets) = MaxPackets
    /\ packets[2].state = "0"
    /\ Len(notified) = 1

\* The timestamps of an entry list, in its order.
Stamps(entries) == [i \in 1..Len(entries) |-> entries[i].ts]

\* The last n elements of a list, or all of it.
LastOf(list, n) ==
    IF Len(list) > n THEN SubSeq(list, Len(list) - n + 1, Len(list)) ELSE list

\* C29: the persisted entry list of a channel never holds more than
\* MAX_ENTRIES (5000) entries, and an addLogEntry that exceeds the cap drops
\* the oldest entries and keeps the newest in insertion order.
C29_StoreCapped ==
    /\ [](\A c \in Channels : Len(localStorage[c]) <= MAX_ENTRIES)
    /\ [][\A c \in Channels :
            log_rows'[c] > log_rows[c] =>
                Stamps(localStorage'[c]) =
                    LastOf(Append(Stamps(localStorage[c]), nadds'),
                           MAX_ENTRIES)]_vars

\* A channel at the cap has taken two more entries: the two oldest are gone.
C29_Witness ==
    \E c \in Channels :
        /\ Len(localStorage[c]) = MAX_ENTRIES
        /\ localStorage[c][MAX_ENTRIES].ts > 1
        /\ localStorage[c][MAX_ENTRIES - 1].ts > 0

\* The message numbers of the rows of the container, in their order.
RowMessages(rows) == [i \in 1..Len(rows) |-> rows[i].message]

\* The message numbers of the buffered lines, in their order.
LineMessages(lines) == [i \in 1..Len(lines) |-> lines[i].msg]

\* C30: every entry added while the log container does not exist yet is
\* buffered; when the container first appears all buffered entries are
\* appended to it exactly once, in the order they were added, and the buffer
\* is emptied; no entry is lost or appended twice.
C30_BufferFlushedOnce ==
    /\ [](RowMessages(log_entries) \o LineMessages(buffer)
              = [i \in 1..nlogs |-> i])
    /\ [](logContainer => buffer = <<>>)
    /\ [][nlogs' # nlogs /\ ~logContainer =>
            /\ LineMessages(buffer') = Append(LineMessages(buffer), nlogs')
            /\ log_entries' = log_entries]_vars
    /\ [][~logContainer /\ logContainer' =>
            /\ RowMessages(log_entries') = LineMessages(buffer)
            /\ buffer' = <<>>]_vars

\* The container has appeared after all the entries were added, and holds
\* them all.
C30_Witness ==
    /\ logContainer
    /\ Len(log_entries) = MaxLogs
    /\ log_entries[1].timestamp = MaxLogs
    /\ buffer = <<>>

====
